---- MODULE Spec2Model ----
(***************************************************************************)
(* l5kit/data/zarr_utils.py: concatenation and splitting of chunked        *)
(* datasets (scenes -> frames -> agents / traffic-light faces), with the   *)
(* range accounting and the index rebasing they rest on.                   *)
(*                                                                         *)
(* Indices and intervals are 0-based and half-open, as in the source; a    *)
(* TLA+ sequence holds element i of an array at position i + 1.            *)
(***************************************************************************)
EXTENDS Integers, Sequences, FiniteSets, TLC

VARIABLES
    pc,                   \* position of the running operation
    err,                  \* the error that ended it ("" while none)
    input_zarrs,          \* zarr_concat: what each input path holds
    output_exists,        \* zarr_concat: os.path.exists(output_zarr) on entry
    scan_idx,             \* zarr_concat: position of the sizing loop
    num_els_valid_zarrs,  \* zarr_concat: counts of the inputs that opened
    valid_zarrs,          \* zarr_concat: the inputs that opened (positions)
    total_num_els,        \* zarr_concat: counts handed to initialize
    init_calls,           \* number of initialize calls on the destination
    output_dataset,       \* the destination being written
    cur_num_els,          \* zarr_concat: running cumulative counts
    copy_idx,             \* zarr_concat: position of the copy loop
    write_cursor,         \* idx_output_* when the last append returned
    input_dataset,        \* zarr_split: the opened input
    split_infos,          \* zarr_split: split_size_GB of each element
    size_input_gb,        \* zarr_split: size of the input on disk
    num_scenes_output,    \* zarr_split: scenes given to each split
    cur_scene,            \* zarr_split: first scene not cut yet
    cuts_track,           \* zarr_split: (start_cut, end_cut) of each split
    outputs,              \* zarr_split: the datasets created, in order
    range_args,           \* a _get_num_els_in_scene_range call: its scene range
    range_result          \* what the call came to

concat_vars == <<input_zarrs, output_exists, scan_idx, num_els_valid_zarrs, valid_zarrs,
                 total_num_els, init_calls, output_dataset, cur_num_els, copy_idx,
                 write_cursor>>

split_vars == <<input_dataset, split_infos, size_input_gb, num_scenes_output, cur_scene,
                cuts_track, outputs>>

range_vars == <<range_args, range_result>>

vars == <<pc, err, concat_vars, split_vars, range_vars>>

----------------------------------------------------------------------------
\* Bounds of the explored inputs.

\* frames in all the inputs of one operation together
MaxFrames == 3
\* agents in all the inputs of one operation together
MaxAgents == 2
\* traffic-light faces in all the inputs of one operation together
MaxTlFaces == 1
\* entries of input_zarrs
MaxInputs == 3
\* repetitions of one source in input_zarrs
MaxCopies == 3
\* elements of split_infos
MaxSpecs == 3
\* split_size_GB of the elements of split_infos, and of them together
MaxBudgetGB == 2
\* size of the input of zarr_split on disk, in GB
MaxSizeGB == 3

----------------------------------------------------------------------------
\* Python indexing of arrays.

Min(a, b) == IF a < b THEN a ELSE b
Max(a, b) == IF a > b THEN a ELSE b

\* arr[i] raises IndexError outside [-len, len)
InRange(arr, i) == -Len(arr) <= i /\ i < Len(arr)

\* arr[i], negative i counting from the end
At(arr, i) == arr[IF i < 0 THEN Len(arr) + i + 1 ELSE i + 1]

\* a slice bound normalised as Python does: negatives wrap, then clip
Norm(arr, i) == IF i < 0 THEN Max(Len(arr) + i, 0) ELSE Min(i, Len(arr))

\* arr[a:b]
Slice(arr, a, b) == SubSeq(arr, Norm(arr, a) + 1, Norm(arr, b))

\* interval + offset (numpy broadcast over both bounds)
Shift(iv, d) == <<iv[1] + d, iv[2] + d>>

----------------------------------------------------------------------------
\* Datasets.

EmptyDataset == [scenes |-> <<>>, frames |-> <<>>, agents |-> <<>>, tl_faces |-> <<>>]

\* zero-filled records of a pre-allocated array
BlankScene == [host |-> <<0, 0>>, frame_index_interval |-> <<0, 0>>]
BlankFrame ==
    [timestamp |-> <<0, 0>>, agent_index_interval |-> <<0, 0>>,
     traffic_light_faces_index_interval |-> <<0, 0>>]
BlankAgent == [track_id |-> <<0, 0>>]
BlankTlFace == [face_id |-> <<0, 0>>]

ZeroCounts == [num_scenes |-> 0, num_frames |-> 0, num_agents |-> 0, num_tl_faces |-> 0]

\* ChunkedDataset.initialize(**counts): four arrays of exactly the given lengths
Initialize(counts) ==
    [scenes |-> [k \in 1..counts.num_scenes |-> BlankScene],
     frames |-> [k \in 1..counts.num_frames |-> BlankFrame],
     agents |-> [k \in 1..counts.num_agents |-> BlankAgent],
     tl_faces |-> [k \in 1..counts.num_tl_faces |-> BlankTlFace]]

\* Counter.__iadd__: adds per key and keeps only the positive counts; a key
\* that was dropped reads as 0
PosOrZero(n) == IF n > 0 THEN n ELSE 0
CounterAdd(c, d) ==
    [num_scenes |-> PosOrZero(c.num_scenes + d.num_scenes),
     num_frames |-> PosOrZero(c.num_frames + d.num_frames),
     num_agents |-> PosOrZero(c.num_agents + d.num_agents),
     num_tl_faces |-> PosOrZero(c.num_tl_faces + d.num_tl_faces)]

----------------------------------------------------------------------------
\* Range Accountant.

ErrAssert == "AssertionError"
ErrIndex == "IndexError"
ErrBounds == "OutOfBoundsError"
ErrExists == "AlreadyExistsError"

\* mutant: the closing frame is looked up through the first scene of the range
NumElsCountsOfFirstScene(zarr_dataset, scene_index_start, scene_index_end) ==
    LET scene_start == At(zarr_dataset.scenes, scene_index_start)
        scene_end == At(zarr_dataset.scenes, scene_index_end - 1)
        frame_start == At(zarr_dataset.frames, scene_start.frame_index_interval[1])
        frame_end == At(zarr_dataset.frames, scene_start.frame_index_interval[2] - 1)
    IN  [num_scenes |-> scene_index_end - scene_index_start,
         num_frames |-> scene_end.frame_index_interval[2] - scene_start.frame_index_interval[1],
         num_agents |-> frame_end.agent_index_interval[2] - frame_start.agent_index_interval[1],
         num_tl_faces |-> frame_end.traffic_light_faces_index_interval[2]
                          - frame_start.traffic_light_faces_index_interval[1]]

\* the counts computed from the boundary records of [scene_index_start, scene_index_end)
NumElsCounts(zarr_dataset, scene_index_start, scene_index_end) ==
    LET scene_start == At(zarr_dataset.scenes, scene_index_start)
        scene_end == At(zarr_dataset.scenes, scene_index_end - 1)
        frame_start == At(zarr_dataset.frames, scene_start.frame_index_interval[1])
        frame_end == At(zarr_dataset.frames, scene_end.frame_index_interval[2] - 1)
    IN  [num_scenes |-> scene_index_end - scene_index_start,
         num_frames |-> scene_end.frame_index_interval[2] - scene_start.frame_index_interval[1],
         num_agents |-> frame_end.agent_index_interval[2] - frame_start.agent_index_interval[1],
         num_tl_faces |-> frame_end.traffic_light_faces_index_interval[2]
                          - frame_start.traffic_light_faces_index_interval[1]]

\* mutant: the assert lets the empty range through
get_num_els_allowing_empty(zarr_dataset, scene_index_start, scene_index_end) ==
    IF ~(scene_index_end >= scene_index_start)
    THEN [err |-> ErrAssert, counts |-> ZeroCounts]
    ELSE IF ~InRange(zarr_dataset.scenes, scene_index_start)
            \/ ~InRange(zarr_dataset.scenes, scene_index_end - 1)
    THEN [err |-> ErrIndex, counts |-> ZeroCounts]
    ELSE IF ~InRange(zarr_dataset.frames,
                     At(zarr_dataset.scenes, scene_index_start).frame_index_interval[1])
            \/ ~InRange(zarr_dataset.frames,
                        At(zarr_dataset.scenes, scene_index_end - 1).frame_index_interval[2] - 1)
    THEN [err |-> ErrIndex, counts |-> ZeroCounts]
    ELSE [err |-> "",
          counts |-> NumElsCounts(zarr_dataset, scene_index_start, scene_index_end)]

\* _get_num_els_in_scene_range: [err, counts]; err is "" when it returns
get_num_els_in_scene_range(zarr_dataset, scene_index_start, scene_index_end) ==
    IF ~(scene_index_end > scene_index_start)
    THEN [err |-> ErrAssert, counts |-> ZeroCounts]
    ELSE IF ~InRange(zarr_dataset.scenes, scene_index_start)
            \/ ~InRange(zarr_dataset.scenes, scene_index_end - 1)
    THEN [err |-> ErrIndex, counts |-> ZeroCounts]
    ELSE IF ~InRange(zarr_dataset.frames,
                     At(zarr_dataset.scenes, scene_index_start).frame_index_interval[1])
            \/ ~InRange(zarr_dataset.frames,
                        At(zarr_dataset.scenes, scene_index_end - 1).frame_index_interval[2] - 1)
    THEN [err |-> ErrIndex, counts |-> ZeroCounts]
    ELSE [err |-> "",
          counts |-> NumElsCounts(zarr_dataset, scene_index_start, scene_index_end)]

----------------------------------------------------------------------------
\* Subset Copier.

\* arr[at : at + len(block)] = block; the caller checks CanWrite first
WriteBlock(arr, at, block) ==
    [k \in 1..Len(arr) |->
        IF k > at /\ k <= at + Len(block) THEN block[k - at] ELSE arr[k]]

\* a slice assignment fits the pre-allocated array
CanWrite(arr, at, block) == at >= 0 /\ at + Len(block) <= Len(arr)

\* mutant: the scenes keep the frame intervals they have in the input
FixScenesKeepingSource(scenes, idx_start_frame) == scenes

\* scenes["frame_index_interval"] += idx_start_frame
FixScenes(scenes, idx_start_frame) ==
    [k \in 1..Len(scenes) |->
        [scenes[k] EXCEPT !.frame_index_interval = Shift(@, idx_start_frame)]]

\* mutant: the two offsets of a frame are taken for one another
FixFramesSwapped(frames, idx_start_agent, idx_start_tl_face) ==
    [k \in 1..Len(frames) |->
        [frames[k] EXCEPT
            !.agent_index_interval = Shift(@, idx_start_tl_face),
            !.traffic_light_faces_index_interval = Shift(@, idx_start_agent)]]

\* frames["agent_index_interval"] += idx_start_agent, and the same for tl faces
FixFrames(frames, idx_start_agent, idx_start_tl_face) ==
    [k \in 1..Len(frames) |->
        [frames[k] EXCEPT
            !.agent_index_interval = Shift(@, idx_start_agent),
            !.traffic_light_faces_index_interval = Shift(@, idx_start_tl_face)]]

\* mutant: the offsets erase the input history and forget the output history
StartOffsetsNoHistory(input_zarr, scene_index_start, idx_output) ==
    LET idx_start_frame == At(input_zarr.scenes, scene_index_start).frame_index_interval[1]
        first_frame == At(input_zarr.frames, idx_start_frame)
    IN  [frame |-> 0 - idx_start_frame,
         agent |-> 0 - first_frame.agent_index_interval[1],
         tl_face |-> 0 - first_frame.traffic_light_faces_index_interval[1]]

\* the offsets added to the intervals, computed once from the first scene
StartOffsets(input_zarr, scene_index_start, idx_output) ==
    LET idx_start_frame == At(input_zarr.scenes, scene_index_start).frame_index_interval[1]
        first_frame == At(input_zarr.frames, idx_start_frame)
    IN  [frame |-> idx_output.num_frames - idx_start_frame,
         agent |-> idx_output.num_agents - first_frame.agent_index_interval[1],
         tl_face |-> idx_output.num_tl_faces
                     - first_frame.traffic_light_faces_index_interval[1]]

\* the four slice assignments of one scene, in source order; the first one
\* that does not fit ends the copy and leaves the earlier ones in place
WriteScene(out, idx, scenes, frames, agents, tl_faces) ==
    IF ~CanWrite(out.scenes, idx.num_scenes, scenes)
    THEN [out |-> out, err |-> ErrBounds, idx |-> idx]
    ELSE LET o1 == [out EXCEPT !.scenes = WriteBlock(@, idx.num_scenes, scenes)]
    IN  IF ~CanWrite(out.frames, idx.num_frames, frames)
        THEN [out |-> o1, err |-> ErrBounds, idx |-> idx]
        ELSE LET o2 == [o1 EXCEPT !.frames = WriteBlock(@, idx.num_frames, frames)]
        IN  IF ~CanWrite(out.agents, idx.num_agents, agents)
            THEN [out |-> o2, err |-> ErrBounds, idx |-> idx]
            ELSE LET o3 == [o2 EXCEPT !.agents = WriteBlock(@, idx.num_agents, agents)]
            IN  IF ~CanWrite(out.tl_faces, idx.num_tl_faces, tl_faces)
                THEN [out |-> o3, err |-> ErrBounds, idx |-> idx]
                ELSE [out |-> [o3 EXCEPT !.tl_faces = WriteBlock(@, idx.num_tl_faces, tl_faces)],
                      err |-> "",
                      idx |-> [num_scenes |-> idx.num_scenes + Len(scenes),
                               num_frames |-> idx.num_frames + Len(frames),
                               num_agents |-> idx.num_agents + Len(agents),
                               num_tl_faces |-> idx.num_tl_faces + Len(tl_faces)]]

\* mutant: the agents and tl faces of the first frame of the scene alone are read
AppendSceneOfFirstFrame(input_zarr, st, idx_scene, off) ==
    LET scenes == Slice(input_zarr.scenes, idx_scene, idx_scene + 1)
    IN  IF Len(scenes) = 0
        THEN [st EXCEPT !.err = ErrIndex]
        ELSE
        LET frames == Slice(input_zarr.frames, scenes[1].frame_index_interval[1],
                            scenes[1].frame_index_interval[2])
        IN  IF Len(frames) = 0
            THEN [st EXCEPT !.err = ErrIndex]
            ELSE
            LET agents == Slice(input_zarr.agents, frames[1].agent_index_interval[1],
                                frames[1].agent_index_interval[2])
                tl_faces == Slice(input_zarr.tl_faces,
                                  frames[1].traffic_light_faces_index_interval[1],
                                  frames[1].traffic_light_faces_index_interval[2])
            IN  WriteScene(st.out, st.idx, FixScenes(scenes, off.frame),
                           FixFrames(frames, off.agent, off.tl_face), agents, tl_faces)

\* one iteration of the copy loop: read the blocks of idx_scene, fix the
\* indices, write, advance; st is [out, err, idx]
AppendScene(input_zarr, st, idx_scene, off) ==
    LET scenes == Slice(input_zarr.scenes, idx_scene, idx_scene + 1)
    IN  IF Len(scenes) = 0
        THEN [st EXCEPT !.err = ErrIndex]
        ELSE
        LET frames == Slice(input_zarr.frames, scenes[1].frame_index_interval[1],
                            scenes[1].frame_index_interval[2])
        IN  IF Len(frames) = 0
            THEN [st EXCEPT !.err = ErrIndex]
            ELSE
            LET agents == Slice(input_zarr.agents, frames[1].agent_index_interval[1],
                                frames[Len(frames)].agent_index_interval[2])
                tl_faces == Slice(input_zarr.tl_faces,
                                  frames[1].traffic_light_faces_index_interval[1],
                                  frames[Len(frames)].traffic_light_faces_index_interval[2])
            IN  WriteScene(st.out, st.idx, FixScenes(scenes, off.frame),
                           FixFrames(frames, off.agent, off.tl_face), agents, tl_faces)

\* for idx_scene in range(idx_scene, scene_index_end)
RECURSIVE AppendLoop(_, _, _, _, _)
AppendLoop(input_zarr, st, idx_scene, scene_index_end, off) ==
    IF idx_scene >= scene_index_end \/ st.err # ""
    THEN st
    ELSE AppendLoop(input_zarr, AppendScene(input_zarr, st, idx_scene, off),
                    idx_scene + 1, scene_index_end, off)

\* _append_zarr_subset: [out, err, idx], idx the final idx_output_*
append_zarr_subset(input_zarr, output_zarr, scene_index_start, scene_index_end, output_zarr_num_els) ==
    IF ~InRange(input_zarr.scenes, scene_index_start)
    THEN [out |-> output_zarr, err |-> ErrIndex, idx |-> output_zarr_num_els]
    ELSE IF ~InRange(input_zarr.frames,
                     At(input_zarr.scenes, scene_index_start).frame_index_interval[1])
    THEN [out |-> output_zarr, err |-> ErrIndex, idx |-> output_zarr_num_els]
    ELSE AppendLoop(input_zarr,
                    [out |-> output_zarr, err |-> "", idx |-> output_zarr_num_els],
                    scene_index_start, scene_index_end,
                    StartOffsets(input_zarr, scene_index_start, output_zarr_num_els))

----------------------------------------------------------------------------
\* The datasets an operation is run on: every layout within the bounds. A
\* layout is a run of frames, each with its number of agents and tl faces and
\* a mark telling whether it continues the scene ("frame"), opens the next
\* scene ("scene") or opens the next source ("source"). Every scene holds at
\* least one frame and every dataset at least one scene, as in the datasets
\* the library writes; frames may hold no agents and no tl faces. The bounds
\* are on the frames, agents and tl faces of all the inputs together.

RECURSIVE SumTo(_, _)
SumTo(c, j) == IF j = 0 THEN 0 ELSE SumTo(c, j - 1) + c[j]

\* the ways to give n frames at most max records of one kind in all
CountRuns(n, max) == {c \in [1..n -> 0..max] : SumTo(c, n) <= max}

\* the ways to mark n frames, the first opening with mark `first`
MarkRuns(n, marks, first) == {m \in [1..n -> marks] : n = 0 \/ m[1] = first}

\* the run of the frames with a[j] agents, t[j] tl faces and mark m[j]
Run(a, t, m) == [j \in 1..Len(m) |-> [a |-> a[j], t |-> t[j], mark |-> m[j]]]

RECURSIVE SumField(_, _, _)
SumField(run, j, f) == IF j = 0 THEN 0 ELSE SumField(run, j - 1, f) + run[j][f]

\* positions of a run whose frame opens a unit at one of `marks`
Openers(run, marks) ==
    SelectSeq([j \in 1..Len(run) |-> j], LAMBDA j : j = 1 \/ run[j].mark \in marks)

\* the end (exclusive, as a position) of the k-th unit opened at `opens`
UnitEnd(run, opens, k) == IF k < Len(opens) THEN opens[k + 1] ELSE Len(run) + 1

\* the dataset a single-source run describes; payloads are tagged, so that
\* every record of every source is told apart
DatasetOf(run, tag) ==
    LET opens == Openers(run, {"scene"})
    IN  [scenes |->
            [k \in 1..Len(opens) |->
                [host |-> <<tag, k>>,
                 frame_index_interval |-> <<opens[k] - 1, UnitEnd(run, opens, k) - 1>>]],
         frames |->
            [j \in 1..Len(run) |->
                [timestamp |-> <<tag, j>>,
                 agent_index_interval |-> <<SumField(run, j - 1, "a"), SumField(run, j, "a")>>,
                 traffic_light_faces_index_interval |->
                    <<SumField(run, j - 1, "t"), SumField(run, j, "t")>>]],
         agents |-> [k \in 1..SumField(run, Len(run), "a") |-> [track_id |-> <<tag, k>>]],
         tl_faces |-> [k \in 1..SumField(run, Len(run), "t") |-> [face_id |-> <<tag, k>>]]]

\* the datasets of a run of several sources, in order
SourcesOf(run) ==
    LET opens == Openers(run, {"source"})
    IN  [p \in 1..Len(opens) |->
            DatasetOf(SubSeq(run, opens[p], UnitEnd(run, opens, p) - 1), p)]

\* an input path that opens, and one that does not (missing or malformed)
Opens(ds) == [opens |-> TRUE, data |-> ds]
Broken == [opens |-> FALSE, data |-> EmptyDataset]

\* how many positions of P are at most i
RECURSIVE Rank(_, _)
Rank(P, i) == IF i = 0 THEN 0 ELSE Rank(P, i - 1) + (IF i \in P THEN 1 ELSE 0)

\* srcs as n input paths, those at the positions P opening and the others not
WithBroken(srcs, n, P) ==
    [i \in 1..n |-> IF i \in P THEN Opens(srcs[Rank(P, i)]) ELSE Broken]

\* [path] * n
Repeated(ds, n) == [i \in 1..n |-> Opens(ds)]

----------------------------------------------------------------------------
\* zarr_concat(input_zarrs, output_zarr)

\* what an output path that exists may hold before the call: nothing, or a
\* dataset of one scene written earlier
ExistingDatasets ==
    {EmptyDataset, DatasetOf(<<[a |-> 1, t |-> 1, mark |-> "scene"]>>, 0)}

ConcatInit ==
    /\ \/ \E n \in 0..MaxFrames :
            \E a \in CountRuns(n, MaxAgents), t \in CountRuns(n, MaxTlFaces),
               m \in MarkRuns(n, {"frame", "scene", "source"}, "source") :
                LET srcs == SourcesOf(Run(a, t, m))
                IN  \E k \in Len(srcs)..MaxInputs :
                        \E P \in {Q \in SUBSET (1..k) : Cardinality(Q) = Len(srcs)} :
                            input_zarrs = WithBroken(srcs, k, P)
       \/ \E n \in 1..MaxFrames :
            \E a \in CountRuns(n, MaxAgents), t \in CountRuns(n, MaxTlFaces),
               m \in MarkRuns(n, {"frame", "scene"}, "scene") :
                \E copies \in 1..MaxCopies :
                    input_zarrs = Repeated(DatasetOf(Run(a, t, m), 1), copies)
    /\ \/ output_exists = FALSE /\ output_dataset = EmptyDataset
       \/ output_exists = TRUE /\ output_dataset \in ExistingDatasets
    /\ pc = "start"
    /\ err = ""
    /\ scan_idx = 1
    /\ num_els_valid_zarrs = <<>>
    /\ valid_zarrs = <<>>
    /\ total_num_els = ZeroCounts
    /\ init_calls = 0
    /\ cur_num_els = ZeroCounts
    /\ copy_idx = 1
    /\ write_cursor = ZeroCounts
    /\ input_dataset = EmptyDataset
    /\ split_infos = <<>>
    /\ size_input_gb = 1
    /\ num_scenes_output = <<>>
    /\ cur_scene = 0
    /\ cuts_track = <<>>
    /\ outputs = <<>>
    /\ range_args = <<0, 0>>
    /\ range_result = [err |-> "", counts |-> ZeroCounts]

\* mutant: the output path is not looked at
ConcatStartUnchecked ==
    /\ pc = "start"
    /\ pc' = "scan"
    /\ UNCHANGED <<err, input_zarrs, output_exists, scan_idx, num_els_valid_zarrs, valid_zarrs,
                   total_num_els, init_calls, output_dataset, cur_num_els, copy_idx,
                   write_cursor, split_vars, range_vars>>

\* assert not os.path.exists(output_zarr); output_dataset = ChunkedDataset(output_zarr)
ConcatStart ==
    /\ pc = "start"
    /\ IF output_exists
       THEN pc' = "failed" /\ err' = ErrExists
       ELSE pc' = "scan" /\ err' = err
    /\ UNCHANGED <<input_zarrs, output_exists, scan_idx, num_els_valid_zarrs, valid_zarrs,
                   total_num_els, init_calls, output_dataset, cur_num_els, copy_idx,
                   write_cursor, split_vars, range_vars>>

\* the sizing loop, an input that does not open: print and continue
ScanSkip ==
    /\ pc = "scan"
    /\ scan_idx <= Len(input_zarrs)
    /\ ~input_zarrs[scan_idx].opens
    /\ scan_idx' = scan_idx + 1
    /\ UNCHANGED <<pc, err, input_zarrs, output_exists, num_els_valid_zarrs, valid_zarrs,
                   total_num_els, init_calls, output_dataset, cur_num_els, copy_idx,
                   write_cursor, split_vars, range_vars>>

\* mutant: the input that opened is kept under its rank among those that opened
ScanCountByRank ==
    /\ pc = "scan"
    /\ scan_idx <= Len(input_zarrs)
    /\ input_zarrs[scan_idx].opens
    /\ LET opened == input_zarrs[scan_idx].data
           r == get_num_els_in_scene_range(opened, 0, Len(opened.scenes))
       IN  IF r.err # ""
           THEN /\ pc' = "failed"
                /\ err' = r.err
                /\ UNCHANGED <<scan_idx, num_els_valid_zarrs, valid_zarrs>>
           ELSE /\ num_els_valid_zarrs' = Append(num_els_valid_zarrs, r.counts)
                /\ valid_zarrs' = Append(valid_zarrs, Len(valid_zarrs) + 1)
                /\ scan_idx' = scan_idx + 1
                /\ UNCHANGED <<pc, err>>
    /\ UNCHANGED <<input_zarrs, output_exists, total_num_els, init_calls, output_dataset,
                   cur_num_els, copy_idx, write_cursor, split_vars, range_vars>>

\* the sizing loop, an input that opens: its counts and its path are kept
ScanCount ==
    /\ pc = "scan"
    /\ scan_idx <= Len(input_zarrs)
    /\ input_zarrs[scan_idx].opens
    /\ LET opened == input_zarrs[scan_idx].data
           r == get_num_els_in_scene_range(opened, 0, Len(opened.scenes))
       IN  IF r.err # ""
           THEN /\ pc' = "failed"
                /\ err' = r.err
                /\ UNCHANGED <<scan_idx, num_els_valid_zarrs, valid_zarrs>>
           ELSE /\ num_els_valid_zarrs' = Append(num_els_valid_zarrs, r.counts)
                /\ valid_zarrs' = Append(valid_zarrs, scan_idx)
                /\ scan_idx' = scan_idx + 1
                /\ UNCHANGED <<pc, err>>
    /\ UNCHANGED <<input_zarrs, output_exists, total_num_els, init_calls, output_dataset,
                   cur_num_els, copy_idx, write_cursor, split_vars, range_vars>>

\* mutant: the sum starts at the second of the counts
RECURSIVE SumCountersFromSecond(_, _)
SumCountersFromSecond(num_els, n) ==
    IF n <= 1
    THEN ZeroCounts
    ELSE CounterAdd(SumCountersFromSecond(num_els, n - 1), num_els[n])

\* total_num_els += Counter(num_el) for each, from an empty Counter
RECURSIVE SumCounters(_, _)
SumCounters(num_els, n) ==
    IF n = 0 THEN ZeroCounts ELSE CounterAdd(SumCounters(num_els, n - 1), num_els[n])

\* output_dataset.initialize(**total_num_els); cur_num_els = Counter of zeros
Preallocate ==
    /\ pc = "scan"
    /\ scan_idx > Len(input_zarrs)
    /\ total_num_els' = SumCounters(num_els_valid_zarrs, Len(num_els_valid_zarrs))
    /\ output_dataset' = Initialize(total_num_els')
    /\ init_calls' = init_calls + 1
    /\ cur_num_els' = ZeroCounts
    /\ copy_idx' = 1
    /\ pc' = "copy"
    /\ UNCHANGED <<err, input_zarrs, output_exists, scan_idx, num_els_valid_zarrs,
                   valid_zarrs, write_cursor, split_vars, range_vars>>

\* the copy loop: one _append_zarr_subset call over the whole input, then
\* cur_num_els += Counter(num_els_valid_zarrs[idx])
CopyInput ==
    /\ pc = "copy"
    /\ copy_idx <= Len(valid_zarrs)
    /\ LET opened == input_zarrs[valid_zarrs[copy_idx]].data
           r == append_zarr_subset(opened, output_dataset, 0, Len(opened.scenes),
                                   cur_num_els)
       IN  /\ output_dataset' = r.out
           /\ IF r.err # ""
              THEN /\ pc' = "failed"
                   /\ err' = r.err
                   /\ UNCHANGED <<cur_num_els, copy_idx, write_cursor>>
              ELSE /\ cur_num_els' = CounterAdd(cur_num_els, num_els_valid_zarrs[copy_idx])
                   /\ write_cursor' = r.idx
                   /\ copy_idx' = copy_idx + 1
                   /\ UNCHANGED <<pc, err>>
    /\ UNCHANGED <<input_zarrs, output_exists, scan_idx, num_els_valid_zarrs, valid_zarrs,
                   total_num_els, init_calls, split_vars, range_vars>>

\* the copy loop is over: zarr_concat returns
ConcatReturn ==
    /\ pc = "copy"
    /\ copy_idx > Len(valid_zarrs)
    /\ pc' = "done"
    /\ UNCHANGED <<err, input_zarrs, output_exists, scan_idx, num_els_valid_zarrs,
                   valid_zarrs, total_num_els, init_calls, output_dataset, cur_num_els,
                   copy_idx, write_cursor, split_vars, range_vars>>

ConcatNext == ConcatStart \/ ScanSkip \/ ScanCount \/ Preallocate \/ CopyInput \/ ConcatReturn

----------------------------------------------------------------------------
\* zarr_split(input_zarr, output_path, split_infos)

ErrConfig == "ConfigError"
ErrOverflow == "OverflowError"

\* split_size_GB of the element that collects the last part of the input
SentinelGB == -1

\* int(num / den) of a float quotient, den > 0: truncation towards zero
IntOf(num, den) == IF num >= 0 THEN num \div den ELSE 0 - ((0 - num) \div den)

RECURSIVE SumSeq(_, _)
SumSeq(q, n) == IF n = 0 THEN 0 ELSE SumSeq(q, n - 1) + q[n]

\* int(num_scenes_input * split_info["split_size_GB"] / size_input_gb) for split_infos[:-1]
TargetScenes(num_scenes_input, infos, size_gb) ==
    [i \in 1..(Len(infos) - 1) |-> IntOf(num_scenes_input * infos[i], size_gb)]

\* a dataset of n scenes of one frame each, without agents and tl faces
PlainDataset(n) ==
    DatasetOf([j \in 1..n |-> [a |-> 0, t |-> 0, mark |-> "scene"]], 1)

SplitInit ==
    /\ \/ \E n \in 1..MaxFrames :
            \E a \in CountRuns(n, MaxAgents), t \in CountRuns(n, MaxTlFaces),
               m \in MarkRuns(n, {"frame", "scene"}, "scene") :
                /\ input_dataset = DatasetOf(Run(a, t, m), 1)
                /\ \E k \in 0..(MaxSpecs - 1) :
                    \E budgets \in CountRuns(k, MaxBudgetGB) :
                        split_infos = Append(budgets, SentinelGB)
       \/ \E n \in 1..MaxFrames :
            /\ input_dataset = PlainDataset(n)
            /\ \E k \in 0..MaxSpecs : split_infos \in [1..k -> SentinelGB..MaxBudgetGB]
    /\ size_input_gb \in 1..MaxSizeGB
    /\ pc = "split_start"
    /\ err = ""
    /\ num_scenes_output = <<>>
    /\ cur_scene = 0
    /\ cuts_track = <<>>
    /\ outputs = <<>>
    /\ input_zarrs = <<>>
    /\ output_exists = FALSE
    /\ scan_idx = 1
    /\ num_els_valid_zarrs = <<>>
    /\ valid_zarrs = <<>>
    /\ total_num_els = ZeroCounts
    /\ init_calls = 0
    /\ output_dataset = EmptyDataset
    /\ cur_num_els = ZeroCounts
    /\ copy_idx = 1
    /\ write_cursor = ZeroCounts
    /\ range_args = <<0, 0>>
    /\ range_result = [err |-> "", counts |-> ZeroCounts]

\* mutant: the sentinel is looked for on the first element
SplitCheckFirst ==
    /\ pc = "split_start"
    /\ IF Len(split_infos) > 0 /\ split_infos[1] = SentinelGB
       THEN pc' = "split_plan" /\ err' = err
       ELSE pc' = "failed" /\ err' = ErrConfig
    /\ UNCHANGED <<concat_vars, split_vars, range_vars>>

\* the two asserts on split_infos
SplitCheck ==
    /\ pc = "split_start"
    /\ IF Len(split_infos) > 0 /\ split_infos[Len(split_infos)] = SentinelGB
       THEN pc' = "split_plan" /\ err' = err
       ELSE pc' = "failed" /\ err' = ErrConfig
    /\ UNCHANGED <<concat_vars, split_vars, range_vars>>

\* mutant: the assert lets the splits use up every scene of the input
SplitPlanAllowingEqual ==
    /\ pc = "split_plan"
    /\ LET num_scenes_input == Len(input_dataset.scenes)
           targets == TargetScenes(num_scenes_input, split_infos, size_input_gb)
           total == SumSeq(targets, Len(targets))
       IN  IF total <= num_scenes_input
           THEN /\ num_scenes_output' = Append(targets, num_scenes_input - total)
                /\ pc' = "split_cut"
                /\ err' = err
           ELSE /\ num_scenes_output' = targets
                /\ pc' = "failed"
                /\ err' = ErrOverflow
    /\ cur_scene' = 0
    /\ cuts_track' = <<>>
    /\ UNCHANGED <<concat_vars, input_dataset, split_infos, size_input_gb, outputs, range_vars>>

\* the scenes of each split; assert sum(num_scenes_output) < num_scenes_input
SplitPlan ==
    /\ pc = "split_plan"
    /\ LET num_scenes_input == Len(input_dataset.scenes)
           targets == TargetScenes(num_scenes_input, split_infos, size_input_gb)
           total == SumSeq(targets, Len(targets))
       IN  IF total < num_scenes_input
           THEN /\ num_scenes_output' = Append(targets, num_scenes_input - total)
                /\ pc' = "split_cut"
                /\ err' = err
           ELSE /\ num_scenes_output' = targets
                /\ pc' = "failed"
                /\ err' = ErrOverflow
    /\ cur_scene' = 0
    /\ cuts_track' = <<>>
    /\ UNCHANGED <<concat_vars, input_dataset, split_infos, size_input_gb, outputs, range_vars>>

\* mutant: the scene cursor advances by one scene whatever the split took
SplitCutByOne ==
    /\ pc = "split_cut"
    /\ Len(cuts_track) < Len(num_scenes_output)
    /\ LET start_cut == cur_scene
           end_cut == cur_scene + num_scenes_output[Len(cuts_track) + 1]
           num_els_output == get_num_els_in_scene_range(input_dataset, start_cut, end_cut)
           copied == append_zarr_subset(input_dataset, Initialize(num_els_output.counts),
                                        start_cut, end_cut, ZeroCounts)
       IN  IF num_els_output.err # ""
           THEN /\ pc' = "failed"
                /\ err' = num_els_output.err
                /\ UNCHANGED <<outputs, cuts_track, cur_scene>>
           ELSE /\ outputs' = Append(outputs, [data |-> copied.out,
                                               num_els |-> num_els_output.counts,
                                               cursor |-> copied.idx])
                /\ IF copied.err # ""
                   THEN /\ pc' = "failed"
                        /\ err' = copied.err
                        /\ UNCHANGED <<cuts_track, cur_scene>>
                   ELSE /\ cuts_track' = Append(cuts_track, <<start_cut, end_cut>>)
                        /\ cur_scene' = cur_scene + 1
                        /\ UNCHANGED <<pc, err>>
    /\ UNCHANGED <<concat_vars, input_dataset, split_infos, size_input_gb, num_scenes_output,
                   range_vars>>

\* mutant: a split of no scenes is written as an empty output and tracked
SplitCutKeepingEmpty ==
    /\ pc = "split_cut"
    /\ Len(cuts_track) < Len(num_scenes_output)
    /\ LET start_cut == cur_scene
           end_cut == cur_scene + num_scenes_output[Len(cuts_track) + 1]
           num_els_output == get_num_els_in_scene_range(input_dataset, start_cut, end_cut)
           copied == append_zarr_subset(input_dataset, Initialize(num_els_output.counts),
                                        start_cut, end_cut, ZeroCounts)
       IN  IF end_cut = start_cut
           THEN /\ outputs' = Append(outputs, [data |-> Initialize(ZeroCounts),
                                               num_els |-> ZeroCounts,
                                               cursor |-> ZeroCounts])
                /\ cuts_track' = Append(cuts_track, <<start_cut, end_cut>>)
                /\ UNCHANGED <<pc, err, cur_scene>>
           ELSE IF num_els_output.err # ""
           THEN /\ pc' = "failed"
                /\ err' = num_els_output.err
                /\ UNCHANGED <<outputs, cuts_track, cur_scene>>
           ELSE /\ outputs' = Append(outputs, [data |-> copied.out,
                                               num_els |-> num_els_output.counts,
                                               cursor |-> copied.idx])
                /\ IF copied.err # ""
                   THEN /\ pc' = "failed"
                        /\ err' = copied.err
                        /\ UNCHANGED <<cuts_track, cur_scene>>
                   ELSE /\ cuts_track' = Append(cuts_track, <<start_cut, end_cut>>)
                        /\ cur_scene' = end_cut
                        /\ UNCHANGED <<pc, err>>
    /\ UNCHANGED <<concat_vars, input_dataset, split_infos, size_input_gb, num_scenes_output,
                   range_vars>>

\* one iteration of the loop over the splits: count, initialize, copy, track
SplitCut ==
    /\ pc = "split_cut"
    /\ Len(cuts_track) < Len(num_scenes_output)
    /\ LET start_cut == cur_scene
           end_cut == cur_scene + num_scenes_output[Len(cuts_track) + 1]
           num_els_output == get_num_els_in_scene_range(input_dataset, start_cut, end_cut)
           copied == append_zarr_subset(input_dataset, Initialize(num_els_output.counts),
                                        start_cut, end_cut, ZeroCounts)
       IN  IF num_els_output.err # ""
           THEN /\ pc' = "failed"
                /\ err' = num_els_output.err
                /\ UNCHANGED <<outputs, cuts_track, cur_scene>>
           ELSE /\ outputs' = Append(outputs, [data |-> copied.out,
                                               num_els |-> num_els_output.counts,
                                               cursor |-> copied.idx])
                /\ IF copied.err # ""
                   THEN /\ pc' = "failed"
                        /\ err' = copied.err
                        /\ UNCHANGED <<cuts_track, cur_scene>>
                   ELSE /\ cuts_track' = Append(cuts_track, <<start_cut, end_cut>>)
                        /\ cur_scene' = end_cut
                        /\ UNCHANGED <<pc, err>>
    /\ UNCHANGED <<concat_vars, input_dataset, split_infos, size_input_gb, num_scenes_output,
                   range_vars>>

\* return cuts_track
SplitReturn ==
    /\ pc = "split_cut"
    /\ Len(cuts_track) = Len(num_scenes_output)
    /\ pc' = "done"
    /\ UNCHANGED <<err, concat_vars, split_vars, range_vars>>

SplitNext == SplitCheck \/ SplitPlan \/ SplitCut \/ SplitReturn

----------------------------------------------------------------------------
\* _get_num_els_in_scene_range(zarr_dataset, scene_index_start, scene_index_end)
\* called on its own

RangeInit ==
    /\ \E n \in 1..MaxFrames :
        \E a \in CountRuns(n, MaxAgents), t \in CountRuns(n, MaxTlFaces),
           m \in MarkRuns(n, {"frame", "scene"}, "scene") :
            input_dataset = DatasetOf(Run(a, t, m), 1)
    /\ range_args \in (-1..(MaxFrames + 1)) \X (-1..(MaxFrames + 1))
    /\ range_result = [err |-> "", counts |-> ZeroCounts]
    /\ pc = "range_call"
    /\ err = ""
    /\ split_infos = <<>>
    /\ size_input_gb = 1
    /\ num_scenes_output = <<>>
    /\ cur_scene = 0
    /\ cuts_track = <<>>
    /\ outputs = <<>>
    /\ input_zarrs = <<>>
    /\ output_exists = FALSE
    /\ scan_idx = 1
    /\ num_els_valid_zarrs = <<>>
    /\ valid_zarrs = <<>>
    /\ total_num_els = ZeroCounts
    /\ init_calls = 0
    /\ output_dataset = EmptyDataset
    /\ cur_num_els = ZeroCounts
    /\ copy_idx = 1
    /\ write_cursor = ZeroCounts

\* the call returns its counts or raises
RangeCall ==
    /\ pc = "range_call"
    /\ range_result' = get_num_els_in_scene_range(input_dataset, range_args[1], range_args[2])
    /\ err' = range_result'.err
    /\ pc' = IF range_result'.err = "" THEN "done" ELSE "failed"
    /\ UNCHANGED <<concat_vars, split_vars, range_args>>

RangeNext == RangeCall

----------------------------------------------------------------------------
\* Specifications: one per operation.

Init == ConcatInit
Next == ConcatNext
Spec == Init /\ [][Next]_vars

SplitSpec == SplitInit /\ [][SplitNext]_vars

RangeSpec == RangeInit /\ [][RangeNext]_vars

----------------------------------------------------------------------------
\* What the claims about zarr_concat are stated with.

\* the datasets of the inputs that open, in input order
Surviving ==
    LET sel == SelectSeq(input_zarrs, LAMBDA e : e.opens)
    IN  [i \in 1..Len(sel) |-> sel[i].data]

RECURSIVE SumLen(_, _, _)
SumLen(srcs, n, level) ==
    IF n = 0 THEN 0 ELSE SumLen(srcs, n - 1, level) + Len(srcs[n][level])

\* the first n.num_* records of each array of ds are laid out contiguously
\* from index 0 and refer to exactly the first records of the next level
PrefixContiguous(ds, n) ==
    /\ n.num_scenes <= Len(ds.scenes) /\ n.num_frames <= Len(ds.frames)
    /\ n.num_agents <= Len(ds.agents) /\ n.num_tl_faces <= Len(ds.tl_faces)
    /\ n.num_scenes = 0 => n.num_frames = 0
    /\ n.num_frames = 0 => n.num_agents = 0 /\ n.num_tl_faces = 0
    /\ n.num_scenes > 0 =>
        /\ ds.scenes[1].frame_index_interval[1] = 0
        /\ ds.scenes[n.num_scenes].frame_index_interval[2] = n.num_frames
    /\ \A k \in 1..n.num_scenes :
        ds.scenes[k].frame_index_interval[1] <= ds.scenes[k].frame_index_interval[2]
    /\ \A k \in 1..(n.num_scenes - 1) :
        ds.scenes[k].frame_index_interval[2] = ds.scenes[k + 1].frame_index_interval[1]
    /\ n.num_frames > 0 =>
        /\ ds.frames[1].agent_index_interval[1] = 0
        /\ ds.frames[1].traffic_light_faces_index_interval[1] = 0
        /\ ds.frames[n.num_frames].agent_index_interval[2] = n.num_agents
        /\ ds.frames[n.num_frames].traffic_light_faces_index_interval[2] = n.num_tl_faces
    /\ \A j \in 1..n.num_frames :
        /\ ds.frames[j].agent_index_interval[1] <= ds.frames[j].agent_index_interval[2]
        /\ ds.frames[j].traffic_light_faces_index_interval[1]
            <= ds.frames[j].traffic_light_faces_index_interval[2]
    /\ \A j \in 1..(n.num_frames - 1) :
        /\ ds.frames[j].agent_index_interval[2] = ds.frames[j + 1].agent_index_interval[1]
        /\ ds.frames[j].traffic_light_faces_index_interval[2]
            = ds.frames[j + 1].traffic_light_faces_index_interval[1]

\* the lengths of the four arrays of ds
Lengths(ds) ==
    [num_scenes |-> Len(ds.scenes), num_frames |-> Len(ds.frames),
     num_agents |-> Len(ds.agents), num_tl_faces |-> Len(ds.tl_faces)]

\* C1: after every _append_zarr_subset call of zarr_concat the records written
\* so far (up to the running cumulative counts) start at 0 and abut without gap
\* or overlap at every level, also across two sources, and when zarr_concat
\* has returned every array is as long as the last interval of the level above
\* says.
C1_ConcatKeepsContiguity ==
    /\ pc \in {"copy", "done"} => PrefixContiguous(output_dataset, cur_num_els)
    /\ pc = "done" => PrefixContiguous(output_dataset, Lengths(output_dataset))

\* C1 witness: two sources were copied, the first of two scenes, with agents
\* and tl faces on both sides of the boundary between them
C1_Witness ==
    /\ pc = "done"
    /\ Len(Surviving) = 2
    /\ Len(Surviving[1].scenes) = 2
    /\ Len(Surviving[1].agents) > 0 /\ Len(Surviving[2].agents) > 0
    /\ Len(Surviving[1].tl_faces) > 0

\* the inputs are n >= 1 times the same source, all opening
SameSource ==
    /\ Len(input_zarrs) >= 1
    /\ \A i \in 1..Len(input_zarrs) : input_zarrs[i] = Opens(input_zarrs[1].data)

\* C2: with the same source given N times, copy i of scene k, frame f, agent a
\* and tl face t is the source record with the intervals shifted by i times
\* the source's number of frames (scenes), agents and tl faces (frames).
C2_ConcatContentLaw ==
    (pc = "done" /\ SameSource) =>
        LET src == input_zarrs[1].data
            S == Len(src.scenes)
            F == Len(src.frames)
            A == Len(src.agents)
            T == Len(src.tl_faces)
        IN  \A i \in 0..(Len(input_zarrs) - 1) :
                /\ \A k \in 1..S :
                    /\ i * S + k <= Len(output_dataset.scenes)
                    /\ output_dataset.scenes[i * S + k] =
                        [host |-> src.scenes[k].host,
                         frame_index_interval |->
                            Shift(src.scenes[k].frame_index_interval, i * F)]
                /\ \A f \in 1..F :
                    /\ i * F + f <= Len(output_dataset.frames)
                    /\ output_dataset.frames[i * F + f] =
                        [timestamp |-> src.frames[f].timestamp,
                         agent_index_interval |->
                            Shift(src.frames[f].agent_index_interval, i * A),
                         traffic_light_faces_index_interval |->
                            Shift(src.frames[f].traffic_light_faces_index_interval, i * T)]
                /\ \A a \in 1..A :
                    /\ i * A + a <= Len(output_dataset.agents)
                    /\ output_dataset.agents[i * A + a] = src.agents[a]
                /\ \A t \in 1..T :
                    /\ i * T + t <= Len(output_dataset.tl_faces)
                    /\ output_dataset.tl_faces[i * T + t] = src.tl_faces[t]

\* C2 witness: three copies of a source of two scenes with agents and tl faces
C2_Witness ==
    /\ pc = "done" /\ SameSource
    /\ Len(input_zarrs) >= 3
    /\ Len(input_zarrs[1].data.scenes) >= 2
    /\ Len(input_zarrs[1].data.agents) >= 2
    /\ Len(input_zarrs[1].data.tl_faces) >= 1

\* C3: the destination is allocated, and stays, as long at every level as the
\* surviving sources together; with N copies of one source that is N times
\* the source's length.
C3_ConcatLengthLaw ==
    /\ pc \in {"copy", "done"} =>
        \A level \in {"scenes", "frames", "agents", "tl_faces"} :
            Len(output_dataset[level]) = SumLen(Surviving, Len(Surviving), level)
    /\ (pc \in {"copy", "done"} /\ SameSource) =>
        \A level \in {"scenes", "frames", "agents", "tl_faces"} :
            Len(output_dataset[level]) = Len(input_zarrs) * Len(input_zarrs[1].data[level])

\* C3 witness: a returned concatenation of three copies of a source with
\* two scenes, agents and tl faces
C3_Witness ==
    /\ pc = "done" /\ SameSource
    /\ Len(input_zarrs) = 3
    /\ Len(output_dataset.scenes) = 6
    /\ Len(output_dataset.agents) = 6
    /\ Len(output_dataset.tl_faces) = 3

\* zarr_concat run on srcs, all opening: the destination and the cumulative
\* counts after the first n copies
RECURSIVE ConcatOf(_, _)
ConcatOf(srcs, n) ==
    LET counts == [i \in 1..Len(srcs) |->
                      get_num_els_in_scene_range(srcs[i], 0, Len(srcs[i].scenes)).counts]
    IN  IF n = 0
        THEN [out |-> Initialize(SumCounters(counts, Len(counts))), cur |-> ZeroCounts]
        ELSE LET before == ConcatOf(srcs, n - 1)
             IN  [out |-> append_zarr_subset(srcs[n], before.out, 0, Len(srcs[n].scenes),
                                             before.cur).out,
                  cur |-> CounterAdd(before.cur, counts[n])]

\* C6: inputs that do not open never make zarr_concat fail, and the
\* destination is allocated and filled exactly as by zarr_concat run on the
\* inputs that open alone, in their order.
C6_SkippedInputsLeaveNoTrace ==
    /\ pc = "failed" => (err = ErrExists /\ output_exists)
    /\ pc = "copy" =>
        Lengths(output_dataset) = Lengths(ConcatOf(Surviving, 0).out)
    /\ pc = "done" => output_dataset = ConcatOf(Surviving, Len(Surviving)).out

\* C6 witness: zarr_concat returned with an input that does not open between
\* two that do
C6_Witness ==
    /\ pc = "done"
    /\ \E i, j, k \in 1..Len(input_zarrs) :
        /\ i < j /\ j < k
        /\ input_zarrs[i].opens /\ ~input_zarrs[j].opens /\ input_zarrs[k].opens

\* the per-level sum of the counts of the first n of srcs over their full range
RECURSIVE SumNumEls(_, _)
SumNumEls(srcs, n) ==
    IF n = 0
    THEN ZeroCounts
    ELSE LET rest == SumNumEls(srcs, n - 1)
             c == get_num_els_in_scene_range(srcs[n], 0, Len(srcs[n].scenes)).counts
         IN  [num_scenes |-> rest.num_scenes + c.num_scenes,
              num_frames |-> rest.num_frames + c.num_frames,
              num_agents |-> rest.num_agents + c.num_agents,
              num_tl_faces |-> rest.num_tl_faces + c.num_tl_faces]

\* no record of ds is the zero-filled record of a pre-allocated array
AllWritten(ds) ==
    /\ \A k \in 1..Len(ds.scenes) : ds.scenes[k].host # BlankScene.host
    /\ \A k \in 1..Len(ds.frames) : ds.frames[k].timestamp # BlankFrame.timestamp
    /\ \A k \in 1..Len(ds.agents) : ds.agents[k] # BlankAgent
    /\ \A k \in 1..Len(ds.tl_faces) : ds.tl_faces[k] # BlankTlFace

\* C7: the destination is initialized once, with the per-level sum of the
\* counts of the surviving sources over their full range; no write of the copy
\* loop falls outside the allocation; and when the last copy has returned the
\* write cursor is the allocated length at every level, every slot written.
C7_PreallocationExact ==
    /\ init_calls <= 1
    /\ err # ErrBounds
    /\ pc \in {"copy", "done"} =>
        /\ init_calls = 1
        /\ total_num_els = SumNumEls(Surviving, Len(Surviving))
        /\ Lengths(output_dataset) = total_num_els
    /\ pc = "done" =>
        /\ write_cursor = Lengths(output_dataset)
        /\ cur_num_els = Lengths(output_dataset)
        /\ AllWritten(output_dataset)

\* C7 witness: zarr_concat returned after copying two sources, a path that
\* does not open among the inputs, agents and tl faces in the destination
C7_Witness ==
    /\ pc = "done"
    /\ Len(Surviving) = 2
    /\ Len(input_zarrs) = 3
    /\ Len(output_dataset.agents) = 2
    /\ Len(output_dataset.tl_faces) = 1
    /\ write_cursor.num_frames = 3

\* C11: when the output path exists, zarr_concat fails with
\* AlreadyExistsError on its first step: initialize is never called, no record
\* is written, and what the path held stays as it was in every step.
C11_ExistingOutputUntouched ==
    /\ [](output_exists =>
            /\ pc \in {"start", "failed"}
            /\ pc = "failed" => err = ErrExists
            /\ init_calls = 0
            /\ write_cursor = ZeroCounts
            /\ cur_num_els = ZeroCounts)
    /\ [][output_exists => output_dataset' = output_dataset]_vars

\* C11 witness: zarr_concat has failed on an output path that holds a dataset,
\* with two inputs that open
C11_Witness ==
    /\ pc = "failed" /\ err = ErrExists
    /\ output_exists
    /\ Len(output_dataset.scenes) = 1
    /\ Len(Surviving) = 2

----------------------------------------------------------------------------
\* What the claims about zarr_split are stated with.

\* the frames scene k of ds refers to, and the agents and tl faces its frames
\* refer to through the first and the last of them; k counts from 0
SceneFrames(ds, k) ==
    Slice(ds.frames, At(ds.scenes, k).frame_index_interval[1],
          At(ds.scenes, k).frame_index_interval[2])
SceneAgents(ds, k) ==
    LET frames == SceneFrames(ds, k)
    IN  Slice(ds.agents, frames[1].agent_index_interval[1],
              frames[Len(frames)].agent_index_interval[2])
SceneTlFaces(ds, k) ==
    LET frames == SceneFrames(ds, k)
    IN  Slice(ds.tl_faces, frames[1].traffic_light_faces_index_interval[1],
              frames[Len(frames)].traffic_light_faces_index_interval[2])

\* the fields of frames that are no intervals
FramePayload(frames) == [j \in 1..Len(frames) |-> frames[j].timestamp]

\* C4: when zarr_split has returned, scene j of the output of every split
\* refers to frames, agents and tl faces that equal, payload by payload and
\* in order, those scene start_cut + j of the input refers to.
C4_SplitKeepsPayload ==
    pc = "done" =>
        \A i \in 1..Len(cuts_track) :
            \A j \in 0..(cuts_track[i][2] - cuts_track[i][1] - 1) :
                /\ i <= Len(outputs)
                /\ j < Len(outputs[i].data.scenes)
                /\ Len(SceneFrames(outputs[i].data, j)) > 0
                /\ FramePayload(SceneFrames(outputs[i].data, j))
                    = FramePayload(SceneFrames(input_dataset, cuts_track[i][1] + j))
                /\ SceneAgents(outputs[i].data, j)
                    = SceneAgents(input_dataset, cuts_track[i][1] + j)
                /\ SceneTlFaces(outputs[i].data, j)
                    = SceneTlFaces(input_dataset, cuts_track[i][1] + j)

\* C4 witness: a returned split whose last part starts after scene 0, takes
\* two scenes and holds agents and tl faces
C4_Witness ==
    /\ pc = "done"
    /\ Len(cuts_track) = 2
    /\ cuts_track[2] = <<1, 3>>
    /\ Len(outputs[2].data.agents) > 0
    /\ Len(outputs[2].data.tl_faces) > 0

\* C5: when zarr_split has returned there is one cut per element of
\* split_infos, the first starting at 0, each ending where the next starts,
\* the last ending at the number of scenes of the input.
C5_CutsPartitionScenes ==
    pc = "done" =>
        /\ Len(cuts_track) = Len(split_infos)
        /\ Len(cuts_track) >= 1
        /\ cuts_track[1][1] = 0
        /\ cuts_track[Len(cuts_track)][2] = Len(input_dataset.scenes)
        /\ \A i \in 1..Len(cuts_track) : cuts_track[i][1] <= cuts_track[i][2]
        /\ \A i \in 1..(Len(cuts_track) - 1) : cuts_track[i][2] = cuts_track[i + 1][1]

\* C5 witness: a returned split into two parts, the first of two scenes
C5_Witness ==
    /\ pc = "done"
    /\ cuts_track = <<(<<0, 2>>), (<<2, 3>>)>>

\* C12: every output zarr_split has written for a cut (start_cut, end_cut)
\* is as long at every level as _get_num_els_in_scene_range says for the cut,
\* starts its scene, agent and tl-face intervals at 0, holds every interval
\* of the cut moved down by where the cut begins in the input at that level,
\* and was written up to its allocated length at every level.
C12_SplitOutputsRebased ==
    \A i \in 1..Len(outputs) :
        /\ i <= Len(cuts_track)
        /\ LET start_cut == cuts_track[i][1]
               end_cut == cuts_track[i][2]
               out == outputs[i].data
               counted == get_num_els_in_scene_range(input_dataset, start_cut, end_cut)
               f0 == At(input_dataset.scenes, start_cut).frame_index_interval[1]
               a0 == At(input_dataset.frames, f0).agent_index_interval[1]
               t0 == At(input_dataset.frames, f0).traffic_light_faces_index_interval[1]
           IN  /\ counted.err = ""
               /\ outputs[i].num_els = counted.counts
               /\ Lengths(out) = counted.counts
               /\ outputs[i].cursor = Lengths(out)
               /\ Len(out.scenes) = end_cut - start_cut
               /\ Len(out.frames) >= 1
               /\ out.scenes[1].frame_index_interval[1] = 0
               /\ out.frames[1].agent_index_interval[1] = 0
               /\ out.frames[1].traffic_light_faces_index_interval[1] = 0
               /\ \A k \in 1..Len(out.scenes) :
                    out.scenes[k].frame_index_interval
                        = Shift(input_dataset.scenes[start_cut + k].frame_index_interval, 0 - f0)
               /\ \A j \in 1..Len(out.frames) :
                    /\ out.frames[j].agent_index_interval
                        = Shift(input_dataset.frames[f0 + j].agent_index_interval, 0 - a0)
                    /\ out.frames[j].traffic_light_faces_index_interval
                        = Shift(input_dataset.frames[f0 + j].traffic_light_faces_index_interval,
                                0 - t0)

\* C12 witness: the second output of a returned split starts at scene 1, after
\* a frame, an agent and a tl face of the input, and holds two frames and an
\* agent
C12_Witness ==
    /\ pc = "done"
    /\ Len(outputs) = 2
    /\ cuts_track[2][1] = 1
    /\ input_dataset.scenes[2].frame_index_interval[1] = 1
    /\ input_dataset.frames[2].agent_index_interval[1] = 1
    /\ input_dataset.frames[2].traffic_light_faces_index_interval[1] = 1
    /\ Len(outputs[2].data.frames) = 2
    /\ Len(outputs[2].data.agents) = 1

\* the last element of split_infos carries the sentinel
LastIsSentinel ==
    Len(split_infos) > 0 /\ split_infos[Len(split_infos)] = SentinelGB

\* an element of split_infos before the last carries the sentinel
SentinelBeforeLast ==
    \E i \in 1..(Len(split_infos) - 1) : split_infos[i] = SentinelGB

\* C8 as stated: zarr_split fails with ConfigError unless the last element of
\* split_infos, and no other, carries the sentinel.
C8_ConfigErrorUnlessExactlyLast ==
    pc # "split_start" =>
        (err = ErrConfig <=> ~(LastIsSentinel /\ ~SentinelBeforeLast))

\* C8 as amended: zarr_split fails with ConfigError exactly when split_infos
\* is empty or its last element does not carry the sentinel; a sentinel on an
\* earlier element passes that check, and the split then never returns: it
\* fails with OverflowError or in _get_num_els_in_scene_range.
C8_ConfigErrorUnlessLast ==
    /\ pc # "split_start" => (err = ErrConfig <=> ~LastIsSentinel)
    /\ (LastIsSentinel /\ SentinelBeforeLast) =>
        /\ pc # "done"
        /\ pc = "failed" => err \in {ErrOverflow, ErrAssert, ErrIndex}

\* C8 witness: a sentinel on the second of three elements, found by the
\* assert of _get_num_els_in_scene_range after the first split was written
C8_Witness ==
    /\ LastIsSentinel /\ Len(split_infos) = 3 /\ split_infos[2] = SentinelGB
    /\ pc = "failed" /\ err = ErrAssert
    /\ Len(outputs) = 1

\* floor(total_scenes * budget / total_size)
FloorTarget(i) == (Len(input_dataset.scenes) * split_infos[i]) \div size_input_gb

RECURSIVE SumFloorTargets(_)
SumFloorTargets(n) == IF n = 0 THEN 0 ELSE SumFloorTargets(n - 1) + FloorTarget(n)

\* C9: with the sentinel on the last element alone, zarr_split fails with
\* OverflowError whenever the targets of the other elements sum to the scenes
\* of the input or more, and otherwise gives the last element the scenes
\* left, at least one.
C9_OverflowOrRemainder ==
    (LastIsSentinel /\ ~SentinelBeforeLast /\ pc \in {"split_cut", "done", "failed"}) =>
        LET num_scenes_input == Len(input_dataset.scenes)
            others == SumFloorTargets(Len(split_infos) - 1)
        IN  IF others >= num_scenes_input
            THEN pc = "failed" /\ err = ErrOverflow
            ELSE /\ err # ErrOverflow
                 /\ Len(num_scenes_output) = Len(split_infos)
                 /\ num_scenes_output[Len(split_infos)] = num_scenes_input - others
                 /\ num_scenes_output[Len(split_infos)] >= 1

\* C9 witness: the targets of two elements sum to exactly the scenes of the
\* input, and the split fails with OverflowError
C9_Witness ==
    /\ LastIsSentinel /\ ~SentinelBeforeLast
    /\ Len(split_infos) = 3
    /\ pc = "failed" /\ err = ErrOverflow
    /\ FloorTarget(1) > 0 /\ FloorTarget(2) > 0
    /\ FloorTarget(1) + FloorTarget(2) = Len(input_dataset.scenes)

\* C10: _get_num_els_in_scene_range fails its assert, returning no counts,
\* whenever scene_index_end <= scene_index_start, and returns
\* num_scenes = scene_index_end - scene_index_start for every non-empty range
\* inside the dataset.
C10_RangePrecondition ==
    pc # "range_call" =>
        /\ range_args[2] <= range_args[1] =>
            /\ pc = "failed" /\ err = ErrAssert
            /\ range_result.counts = ZeroCounts
        /\ (0 <= range_args[1] /\ range_args[1] < range_args[2]
            /\ range_args[2] <= Len(input_dataset.scenes)) =>
            /\ pc = "done"
            /\ range_result.counts.num_scenes = range_args[2] - range_args[1]

\* C10 witness: the call on an empty range inside the dataset has failed
C10_Witness ==
    /\ pc = "failed" /\ err = ErrAssert
    /\ range_args[1] = range_args[2]
    /\ range_args[1] = 1
    /\ Len(input_dataset.scenes) >= 2

\* the scenes of the elements before the last, as line 202 computes them
Targets == TargetScenes(Len(input_dataset.scenes), split_infos, size_input_gb)

\* the split passes the check of split_infos and an element before the last
\* gets no scene
HasZeroTarget ==
    /\ LastIsSentinel
    /\ \E i \in 1..Len(Targets) : Targets[i] = 0

\* the first element that gets no scene
FirstZeroTarget ==
    CHOOSE i \in 1..Len(Targets) : Targets[i] = 0 /\ \A j \in 1..(i - 1) : Targets[j] # 0

\* the sentinel is on the last element of split_infos and on no other
WellFormedInfos == LastIsSentinel /\ ~SentinelBeforeLast

\* the outputs written so far are those of the first n elements, each written
\* up to its allocated length with no slot left blank
FilledOutputs(n) ==
    /\ Len(outputs) = n
    /\ Len(cuts_track) = n
    /\ \A i \in 1..Len(outputs) :
        /\ outputs[i].cursor = Lengths(outputs[i].data)
        /\ Len(outputs[i].data.scenes) >= 1
        /\ AllWritten(outputs[i].data)

\* every cut tracked so far holds at least one scene
NoEmptyCut == \A i \in 1..Len(cuts_track) : cuts_track[i][1] < cuts_track[i][2]

\* C13 as stated: a split with an element of zero scenes always ends in the
\* assert of _get_num_els_in_scene_range at that element, the outputs of the
\* elements before it written; a returned split has no empty cut.
C13_ZeroTargetFailsInRangeAccountant ==
    /\ pc = "done" => NoEmptyCut
    /\ (WellFormedInfos /\ HasZeroTarget /\ pc # "split_start") =>
        /\ pc # "done"
        /\ pc = "failed" =>
            /\ err = ErrAssert
            /\ FilledOutputs(FirstZeroTarget - 1)

\* C13 as amended: a split with an element of zero scenes never returns. When
\* the scenes of the elements before the last sum to the scenes of the input
\* or more it fails with OverflowError before any output is created;
\* otherwise it fails in the assert of _get_num_els_in_scene_range at the first
\* such element, the outputs of the elements before it written in full. A
\* returned split has no empty cut.
C13_ZeroTargetNeverReturns ==
    /\ pc = "done" => NoEmptyCut
    /\ HasZeroTarget => pc # "done"
    /\ (WellFormedInfos /\ HasZeroTarget) =>
        /\ pc = "split_cut" => Len(cuts_track) < FirstZeroTarget
        /\ pc = "failed" =>
            IF SumSeq(Targets, Len(Targets)) >= Len(input_dataset.scenes)
            THEN err = ErrOverflow /\ FilledOutputs(0)
            ELSE err = ErrAssert /\ FilledOutputs(FirstZeroTarget - 1)

\* C13 witness: a positive budget too small for one scene on the second of
\* three elements; the split has failed in the assert of
\* _get_num_els_in_scene_range after the first output was written
C13_Witness ==
    /\ WellFormedInfos /\ HasZeroTarget
    /\ Len(split_infos) = 3
    /\ split_infos[2] > 0
    /\ FirstZeroTarget = 2
    /\ pc = "failed" /\ err = ErrAssert
    /\ Len(outputs) = 1

====
